---- MODULE Spec2Model ----
(***************************************************************************)
(* Model of src/src/heater.py: the status-frame codec                      *)
(* (VevorHeaterStatusBle, VevorHeaterStatus) and the command session       *)
(* (VevorDevice._send_ble_command and its callers).                        *)
(*                                                                         *)
(* Four specifications share the module:                                   *)
(*   CodecSpec   draws a 20-byte notification payload from bounded byte    *)
(*               sets and applies from_ble_data_array and from_ble_status  *)
(*               to it;                                                    *)
(*   LengthSpec  applies from_ble_data_array to payloads of 0..24 bytes;   *)
(*   CommandSpec builds the frame of one command;                          *)
(*   Spec        runs concurrent callers of one VevorDevice.               *)
(***************************************************************************)
EXTENDS Integers, Sequences, FiniteSets, TLC

VARIABLES
    \* ---- codec ----
    buffer,          \* the payload handed to from_ble_data_array
    cpc,             \* "input" -> "parsed" -> "converted", or "struct.error"
    parsed,          \* result of from_ble_data_array: None or Some(frame record)
    verification_errors, \* _verification_errors left by _verify
    converted,       \* result of from_ble_status: None or Some(status record)
    \* ---- session ----
    status,          \* VevorDevice.status: None or Some(status record)
    statusSrc,       \* history: <<payload, request type>> status was built from
    command_lock,    \* asyncio.Lock: TRUE when locked
    pc,              \* per caller: position inside _send_ble_command
    data,            \* per caller: the command frame of the call
    connected,       \* per caller: its BleakClient holds a connection
    subscribed,      \* per caller: notification_handler is registered
    latch,           \* per caller: response_received_latch
    response,        \* per caller: the nonlocal response
    respSrc,         \* history: <<payload, request type>> response was built from
    log,             \* history: payloads delivered to the handler in this call
    ops,             \* history: transport calls made by this call, in order
    exc,             \* per caller: exception being propagated ("none" if none)
    result,          \* per caller: how its last call ended
    pending,         \* per caller: <<mode, target>> of the set_target_* coroutine
                     \* whose _set_target is still to come, None otherwise
    \* ---- command frames ----
    command,         \* the coroutine called and its argument
    frame            \* the data it hands to _send_ble_command: None or Some(bytes)

codecVars == <<buffer, cpc, parsed, verification_errors, converted>>
sessionVars == <<status, statusSrc, command_lock, pc, data, connected, subscribed,
                 latch, response, respSrc, log, ops, exc, result, pending>>
commandVars == <<command, frame>>
vars == <<buffer, cpc, parsed, verification_errors, converted,
          status, statusSrc, command_lock, pc, data, connected, subscribed,
          latch, response, respSrc, log, ops, exc, result, pending,
          command, frame>>

----------------------------------------------------------------------------
\* the members of a sequence
Members(seq) == { seq[i] : i \in 1..Len(seq) }

\* Python's None and a present value
None == << >>
Some(v) == <<v>>

\* struct.calcsize("<HBBBBHBBBHHHBxB")
StructSize == 20

\* little-endian unsigned 16-bit field at 1-based position i
U16(b, i) == b[i] + 256 * b[i + 1]

\* struct.unpack("<HBBBBHBBBHHHBxB", buffer) and VevorHeaterStatusBle(*unpacked)
Unpack(b) ==
    [ magic_constant              |-> U16(b, 1),
      request_type                |-> b[3],
      power_status                |-> b[4],
      error                       |-> b[5],
      operational_status          |-> b[6],
      elevation                   |-> U16(b, 7),
      operational_mode            |-> b[9],
      target_temperature_or_level |-> b[10],
      current_power_level         |-> b[11],
      input_voltage_decivolts     |-> U16(b, 12),
      combustion_temperature      |-> U16(b, 14),
      room_temperature            |-> U16(b, 16),
      display_error               |-> b[18],
      checksum                    |-> b[20] ]

\* a checksum over the bytes of the payload, low and high byte of each
\* 16-bit field added separately
calculated_checksum_of_bytes(f) ==
    ( f.power_status + f.error + f.operational_status
      + (f.elevation % 256) + (f.elevation \div 256)
      + f.operational_mode + f.target_temperature_or_level
      + f.current_power_level
      + (f.input_voltage_decivolts % 256) + (f.input_voltage_decivolts \div 256)
      + (f.combustion_temperature % 256) + (f.combustion_temperature \div 256)
      + (f.room_temperature % 256) + (f.room_temperature \div 256)
      + f.display_error ) % 256

\* calculated_checksum of _verify
calculated_checksum(f) ==
    ( f.power_status + f.error + f.operational_status + f.elevation
      + f.operational_mode + f.target_temperature_or_level
      + f.current_power_level + f.input_voltage_decivolts
      + f.combustion_temperature + f.room_temperature + f.display_error ) % 256

\* allowed_target_range of _verify, for an operational_mode in (0, 1, 2)
allowed_target_range(mode) ==
    IF mode = 1 THEN 1..10
    ELSE IF mode = 2 THEN 8..36
    ELSE 0..0

\* "self.request_type <= 0 not in range(1, 5)": a chained comparison,
\* (self.request_type <= 0) and (0 not in range(1, 5))
RequestTypeFlagged(f) == (f.request_type <= 0) /\ (0 \notin 1..4)

Flag(cond, name) == IF cond THEN <<name>> ELSE << >>

\* the range checks applied to every frame, powered off or not
RangeErrorsUnguarded(f) ==
       Flag(RequestTypeFlagged(f), "request_type")
    \o Flag(f.power_status \notin {0, 1, 2}, "power_status")
    \o Flag(f.error \notin 0..10, "error")
    \o Flag(f.operational_status \notin 0..4, "operational_status")
    \o ( IF f.operational_mode \notin {0, 1, 2}
         THEN <<"operational_mode">>
         ELSE Flag(f.target_temperature_or_level
                      \notin allowed_target_range(f.operational_mode),
                   "target_temperature_or_level") )
    \o Flag(f.operational_mode = 2 /\ f.current_power_level \notin 0..9,
            "current_power_level")
    \o Flag(f.display_error \notin 0..10, "display_error")

\* the field-range checks of _verify, skipped when power_status == 0
RangeErrors(f) ==
    IF f.power_status # 0
    THEN   Flag(RequestTypeFlagged(f), "request_type")
        \o Flag(f.power_status \notin {0, 1, 2}, "power_status")
        \o Flag(f.error \notin 0..10, "error")
        \o Flag(f.operational_status \notin 0..4, "operational_status")
        \o ( IF f.operational_mode \notin {0, 1, 2}
             THEN <<"operational_mode">>
             ELSE Flag(f.target_temperature_or_level
                          \notin allowed_target_range(f.operational_mode),
                       "target_temperature_or_level") )
        \o Flag(f.operational_mode = 2 /\ f.current_power_level \notin 0..9,
                "current_power_level")
        \o Flag(f.display_error \notin 0..10, "display_error")
    ELSE << >>

\* the checksum check nested under "if self.power_status != 0"
ChecksumErrorsWhenOn(f) ==
    Flag(f.power_status # 0 /\ calculated_checksum(f) # f.checksum, "checksum")

\* the checksum check of _verify, applied to every frame
ChecksumErrors(f) == Flag(calculated_checksum(f) # f.checksum, "checksum")

\* self._verification_errors after _verify
VerificationErrors(f) == RangeErrors(f) \o ChecksumErrors(f)

\* _verify's return value
Verify(f) == VerificationErrors(f) = << >>

\* struct.unpack that accepts a buffer longer than the struct
unpack_raises_short(b) == Len(b) < StructSize

\* struct.unpack raises struct.error unless the buffer has exactly the size
\* of the struct; from_ble_data_array lets the exception through
unpack_raises(b) == Len(b) # StructSize

\* the value from_ble_data_array returns for a buffer struct.unpack accepts:
\* the frame, or None when _verify fails
from_ble_data_array(b) == IF Verify(Unpack(b)) THEN Some(Unpack(b)) ELSE None

\* the Enum constructors; a value outside the enum raises ValueError
PowerStatus(v) ==
    CASE v = 0 -> "OFF" [] v = 1 -> "RUNNING" [] v = 2 -> "ERROR"
      [] OTHER -> "ValueError"

\* an OperationalStatus enum without SHUTTING_DOWN
OperationalStatusIncomplete(v) ==
    CASE v = 0 -> "WARMUP" [] v = 1 -> "SELF_TEST_RUNNING" [] v = 2 -> "IGNITION"
      [] v = 3 -> "HEATING"
      [] OTHER -> "ValueError"

OperationalStatus(v) ==
    CASE v = 0 -> "WARMUP" [] v = 1 -> "SELF_TEST_RUNNING" [] v = 2 -> "IGNITION"
      [] v = 3 -> "HEATING" [] v = 4 -> "SHUTTING_DOWN"
      [] OTHER -> "ValueError"

OperationalMode(v) ==
    CASE v = 1 -> "POWER_LEVEL" [] v = 2 -> "TARGET_TEMPERATURE"
      [] OTHER -> "ValueError"

HeaterError(v) ==
    CASE v = 0 -> "NO_ERROR" [] v = 1 -> "POWER_SUPPLY_UNDERVOLTAGE"
      [] v = 2 -> "POWER_SUPPLY_OVERVOLTAGE" [] v = 3 -> "IGNITION_COIL_FAILURE"
      [] v = 4 -> "FUEL_PUMP_FAILURE" [] v = 5 -> "HIGH_TEMPERATURE_ALARM"
      [] v = 6 -> "FAN_FAILURE" [] v = 7 -> "CABLE_DAMAGE"
      [] v = 8 -> "COMBUSTION_FAILURE" [] v = 9 -> "SENSOR_FAILURE"
      [] v = 10 -> "IGNITION_FAILURE"
      [] OTHER -> "ValueError"

\* the class object OperationalMode, as opposed to one of its members
OperationalModeClass == "<enum 'OperationalMode'>"

\* VevorHeaterStatus(...) with the dataclass defaults
VevorHeaterStatus(ps, om, os, el, tt, tp, cp, iv, ct, rt, er) ==
    [ power_status           |-> ps,
      operational_mode       |-> om,
      operational_status     |-> os,
      elevation              |-> el,
      target_temperature     |-> tt,
      target_power_level     |-> tp,
      current_power_level    |-> cp,
      input_voltage          |-> iv,
      combustion_temperature |-> ct,
      room_temperature       |-> rt,
      error                  |-> er ]

\* VevorHeaterStatus(power_status=PowerStatus.OFF)
OffStatus ==
    VevorHeaterStatus(Some("OFF"), None, None, None, None, None, None, None,
                      None, None, None)

\* float(decivolts) / 10, kept as the exact quotient
Tenths(n) == [num |-> n, den |-> 10]

\* the test "OperationalMode == OperationalMode.TARGET_TEMPERATURE" of
\* from_ble_status: the class compared with its member
ModeIsTargetTemperature(s) == OperationalModeClass = OperationalMode(2)

\* target_temperature=target_temp_or_level if opmode == TARGET_TEMPERATURE else None
target_temperature_always(opmode, v) == Some(v)

target_temperature_of(opmode, v) ==
    IF opmode = Some("TARGET_TEMPERATURE") THEN Some(v) ELSE None

\* target_power_level=target_temp_or_level if opmode == POWER_LEVEL else None
target_power_level_of(opmode, v) ==
    IF opmode = Some("POWER_LEVEL") THEN Some(v) ELSE None

\* VevorHeaterStatus.from_ble_status
from_ble_status(s) ==
    IF s.power_status = 0
    THEN OffStatus
    ELSE LET opmode == IF s.operational_mode # 0
                       THEN Some(OperationalMode(s.operational_mode))
                       ELSE None
             target_temp_or_level == s.target_temperature_or_level
             current_power_level ==
                 IF ModeIsTargetTemperature(s)
                 THEN s.current_power_level + 1
                 ELSE target_temp_or_level
         IN VevorHeaterStatus(
                Some(PowerStatus(s.power_status)),
                opmode,
                Some(OperationalStatus(s.operational_status)),
                Some(s.elevation),
                target_temperature_of(opmode, target_temp_or_level),
                target_power_level_of(opmode, target_temp_or_level),
                Some(current_power_level),
                Some(Tenths(s.input_voltage_decivolts)),
                Some(s.combustion_temperature),
                Some(s.room_temperature),
                IF s.display_error # 0
                    THEN Some(HeaterError(s.display_error))
                    ELSE Some("NO_ERROR"))

----------------------------------------------------------------------------
\* The payloads the codec specification decodes: each byte of the layout
\* ranges over values on both sides of the limits _verify tests.
RequestTypeBytes == {0, 1, 4, 5}
PowerStatusBytes == {0, 1, 2, 3}
ErrorBytes == {0, 10, 11}
OperationalStatusBytes == {0, 4, 5}
ElevationHiBytes == {0, 1}
OperationalModeBytes == {0, 1, 2, 3}
TargetBytes == {0, 1, 7, 8, 10, 11, 36, 37}
CurrentPowerLevelBytes == {3, 9, 10}
DisplayErrorBytes == {0, 10, 11}
\* the checksum byte, as an offset from the sum of the checksummed bytes
ChecksumOffsets == {0, 1}

\* a 20-byte payload in wire order; ck is the checksum byte
Payload(rt, ps, er, os, elLo, elHi, om, tt, cp, ivLo, ivHi, ctLo, ctHi, rtLo, rtHi, de, ck) ==
    << 170, 85, rt, ps, er, os, elLo, elHi, om, tt, cp, ivLo, ivHi,
       ctLo, ctHi, rtLo, rtHi, de, 0, ck >>

\* the low bytes of the checksummed fields of a payload, summed
LowByteSum(b) ==
    b[4] + b[5] + b[6] + b[7] + b[9] + b[10] + b[11] + b[12] + b[14] + b[16] + b[18]

\* payload b with its checksum byte set off past the sum of its low bytes
WithChecksum(b, off) == [b EXCEPT ![20] = (LowByteSum(b) + off) % 256]

\* the tasks that call the coroutines of the one VevorDevice concurrently
Callers == {1, 2}

\* the session's variables before any call

SessionInit ==
    /\ status = None
    /\ statusSrc = None
    /\ command_lock = FALSE
    /\ pc = [c \in Callers |-> "idle"]
    /\ data = [c \in Callers |-> << >>]
    /\ connected = [c \in Callers |-> FALSE]
    /\ subscribed = [c \in Callers |-> FALSE]
    /\ latch = [c \in Callers |-> FALSE]
    /\ response = [c \in Callers |-> None]
    /\ respSrc = [c \in Callers |-> None]
    /\ log = [c \in Callers |-> << >>]
    /\ ops = [c \in Callers |-> << >>]
    /\ exc = [c \in Callers |-> "none"]
    /\ result = [c \in Callers |-> "none"]
    /\ pending = [c \in Callers |-> None]

CodecIdle ==
    /\ buffer = << >>
    /\ cpc = "input"
    /\ parsed = None
    /\ verification_errors = << >>
    /\ converted = None

\* no command frame is being built
CommandIdle ==
    /\ command = [op |-> "none", arg |-> 0]
    /\ frame = None

CodecInit ==
    /\ \E rt \in RequestTypeBytes, ps \in PowerStatusBytes, er \in ErrorBytes,
          os \in OperationalStatusBytes, elHi \in ElevationHiBytes,
          om \in OperationalModeBytes, tt \in TargetBytes,
          cp \in CurrentPowerLevelBytes, de \in DisplayErrorBytes,
          off \in ChecksumOffsets :
            buffer = WithChecksum(Payload(rt, ps, er, os, 44, elHi, om, tt, cp,
                                          120, 0, 150, 0, 21, 0, de, 0), off)
    /\ cpc = "input"
    /\ parsed = None
    /\ verification_errors = << >>
    /\ converted = None
    /\ SessionInit
    /\ CommandIdle

\* status = VevorHeaterStatusBle.from_ble_data_array(response_data)
DecodeStep ==
    /\ cpc = "input"
    /\ IF unpack_raises(buffer)
       THEN /\ cpc' = "struct.error"
            /\ UNCHANGED <<parsed, verification_errors>>
       ELSE /\ parsed' = from_ble_data_array(buffer)
            /\ verification_errors' = VerificationErrors(Unpack(buffer))
            /\ cpc' = "parsed"
    /\ UNCHANGED <<buffer, converted>>
    /\ UNCHANGED <<sessionVars, commandVars>>

\* response = VevorHeaterStatus.from_ble_status(status), for a status that
\* is not None
ConvertStep ==
    /\ cpc = "parsed"
    /\ parsed # None
    /\ converted' = Some(from_ble_status(parsed[1]))
    /\ cpc' = "converted"
    /\ UNCHANGED <<buffer, parsed, verification_errors>>
    /\ UNCHANGED <<sessionVars, commandVars>>

CodecNext == DecodeStep \/ ConvertStep

CodecSpec == CodecInit /\ [][CodecNext]_vars

----------------------------------------------------------------------------
\* The command session: VevorDevice and the callers of its coroutines.

\* the most notifications delivered to the handler during one call
MaxNotifs == 2

\* self.address, and the addresses of the BLEDevice objects callers pass
DeviceAddress == "A4:C1:38:00:00:01"
BLEDevices == {"A4:C1:38:00:00:01", "A4:C1:38:00:00:02"}

\* the positions of a call that are inside "async with self.command_lock"
Critical == {"connect", "start_notify", "write", "wait", "stop_notify", "disconnect"}

\* sum(seq[i:]) for a 1-based position i
RECURSIVE SumFrom(_, _)
SumFrom(seq, i) == IF i > Len(seq) THEN 0 ELSE seq[i] + SumFrom(seq, i + 1)

\* the same without the reduction modulo 256
WithCommandChecksumUnreduced(d) == [d EXCEPT ![Len(d)] = SumFrom(d, 3)]

\* data[-1] = sum(data[2:]) % 256 on a frame built with a last byte of 0
WithCommandChecksum(d) == [d EXCEPT ![Len(d)] = SumFrom(d, 3) % 256]

\* the frame of _set_operational_mode
set_operational_mode_data(mode) ==
    WithCommandChecksum(<<170, 85, 12, 34, 2, mode, 0, 0>>)

\* the frame of _set_target
set_target_data(target) ==
    WithCommandChecksum(<<170, 85, 12, 34, 4, target, 0, 0>>)

\* the literal frames of refresh_status, turn_on and turn_off
refresh_status_data == <<170, 85, 12, 34, 1, 0, 0, 47>>
turn_on_data == <<170, 85, 12, 34, 3, 1, 0, 50>>
turn_off_data == <<170, 85, 12, 34, 3, 0, 0, 49>>

\* OperationalMode.POWER_LEVEL.value and OperationalMode.TARGET_TEMPERATURE.value
ModeValues == {1, 2}

\* the temperatures callers pass to set_target_temperature and the power
\* levels they pass to set_target_power_level
Temperatures == {8}
PowerLevels == {5}

\* payloads the heater can notify: a running status answering request 1,
\* an Off status answering request 3, a frame with a wrong checksum, a
\* frame with an out-of-range error field and a payload of 16 bytes
RunningPayload ==
    WithChecksum(Payload(1, 1, 0, 3, 44, 1, 1, 7, 3, 120, 0, 150, 0, 21, 0, 0, 0), 0)
OffPayload ==
    WithChecksum(Payload(3, 0, 0, 0, 0, 0, 0, 0, 0, 120, 0, 0, 0, 21, 0, 0, 0), 0)
BadChecksumPayload ==
    WithChecksum(Payload(1, 1, 0, 3, 44, 1, 1, 7, 3, 120, 0, 150, 0, 21, 0, 0, 0), 1)
BadRangePayload ==
    WithChecksum(Payload(3, 1, 11, 3, 44, 1, 1, 7, 3, 120, 0, 150, 0, 21, 0, 0, 0), 0)
ShortPayload == SubSeq(RunningPayload, 1, 16)

\* the payloads delivered to the handler of a call; the handler takes the
\* same branch for every frame that fails _verify
NotifyPayloads == {RunningPayload, OffPayload, BadChecksumPayload, ShortPayload}

\* the start of _send_ble_command without the address check
Send_unchecked(c, device, d) ==
    /\ pc[c] \in {"idle", "set_target"}
    /\ data' = [data EXCEPT ![c] = d]
    /\ connected' = [connected EXCEPT ![c] = FALSE]
    /\ subscribed' = [subscribed EXCEPT ![c] = FALSE]
    /\ ops' = [ops EXCEPT ![c] = << >>]
    /\ exc' = [exc EXCEPT ![c] = "none"]
    /\ result' = [result EXCEPT ![c] = "none"]
    /\ pc' = [pc EXCEPT ![c] = "lock"]
    /\ UNCHANGED <<status, statusSrc, command_lock, latch, response, respSrc, log>>
    /\ UNCHANGED <<codecVars, commandVars>>

\* the start of _send_ble_command(device, data): the address check, then
\* the call queues for command_lock
Send(c, device, d) ==
    /\ pc[c] \in {"idle", "set_target"}
    /\ data' = [data EXCEPT ![c] = IF device # DeviceAddress THEN << >> ELSE d]
    /\ connected' = [connected EXCEPT ![c] = FALSE]
    /\ subscribed' = [subscribed EXCEPT ![c] = FALSE]
    /\ ops' = [ops EXCEPT ![c] = << >>]
    /\ IF device # DeviceAddress
       THEN /\ exc' = [exc EXCEPT ![c] = "address"]
            /\ result' = [result EXCEPT ![c] = "raised"]
            /\ pc' = [pc EXCEPT ![c] = "idle"]
       ELSE /\ exc' = [exc EXCEPT ![c] = "none"]
            /\ result' = [result EXCEPT ![c] = "none"]
            /\ pc' = [pc EXCEPT ![c] = "lock"]
    /\ UNCHANGED <<status, statusSrc, command_lock, latch, response, respSrc, log>>
    /\ UNCHANGED <<codecVars, commandVars>>

refresh_status(c, device) ==
    /\ pc[c] = "idle"
    /\ Send(c, device, refresh_status_data)
    /\ UNCHANGED pending

turn_on(c, device) ==
    /\ pc[c] = "idle"
    /\ Send(c, device, turn_on_data)
    /\ UNCHANGED pending

turn_off(c, device) ==
    /\ pc[c] = "idle"
    /\ Send(c, device, turn_off_data)
    /\ UNCHANGED pending

\* await self._set_operational_mode(device, mode), the first statement of
\* set_target_temperature and set_target_power_level; an address mismatch
\* raised by it ends the coroutine
set_operational_mode(c, device, mode, target) ==
    /\ pc[c] = "idle"
    /\ Send(c, device, set_operational_mode_data(mode))
    /\ pending' = [pending EXCEPT ![c] =
                     IF device # DeviceAddress THEN None ELSE Some(<<mode, target>>)]

set_target_temperature(c, device, temperature) ==
    set_operational_mode(c, device, 2, temperature)

set_target_power_level(c, device, power_level) ==
    set_operational_mode(c, device, 1, power_level)

\* a coroutine that returns after _set_operational_mode
set_target_not_issued(c) ==
    /\ pc[c] = "set_target"
    /\ pc' = [pc EXCEPT ![c] = "idle"]
    /\ pending' = [pending EXCEPT ![c] = None]
    /\ UNCHANGED <<status, statusSrc, command_lock, data, connected, subscribed,
                   latch, response, respSrc, log, ops, exc, result>>
    /\ UNCHANGED <<codecVars, commandVars>>

\* await self._set_target(device, target), the second statement, reached
\* when _set_operational_mode returned: the same device passes the address
\* check again and the call queues for command_lock
set_target(c) ==
    /\ pc[c] = "set_target"
    /\ pending[c] # None
    /\ Send(c, DeviceAddress, set_target_data(pending[c][1][2]))
    /\ pending' = [pending EXCEPT ![c] = None]

\* command_lock.acquire() without the wait for the lock to be free
acquire_unguarded(c) ==
    /\ pc[c] = "lock"
    /\ command_lock' = TRUE
    /\ pc' = [pc EXCEPT ![c] = "connect"]
    /\ UNCHANGED <<status, statusSrc, data, connected, subscribed, latch, response,
                   respSrc, log, ops, exc, result>>
    /\ UNCHANGED <<pending, codecVars, commandVars>>

\* "async with self.command_lock": the call proceeds once the lock is free
acquire(c) ==
    /\ pc[c] = "lock"
    /\ ~ command_lock
    /\ command_lock' = TRUE
    /\ pc' = [pc EXCEPT ![c] = "connect"]
    /\ UNCHANGED <<status, statusSrc, data, connected, subscribed, latch, response,
                   respSrc, log, ops, exc, result>>
    /\ UNCHANGED <<pending, codecVars, commandVars>>

\* the end of a call that keeps command_lock when an exception propagates
release_unless_raised(c, raised) == raised

\* the exit of "async with self.command_lock": the lock is released whether
\* the block returned or raised
release(c, raised) == FALSE

\* client = await establish_connection(...); on success the latch and the
\* response of the call are created; a failure leaves the "async with"
establish_connection(c) ==
    /\ pc[c] = "connect"
    /\ ops' = [ops EXCEPT ![c] = Append(@, "connect")]
    /\ \/ /\ connected' = [connected EXCEPT ![c] = TRUE]
          /\ latch' = [latch EXCEPT ![c] = FALSE]
          /\ response' = [response EXCEPT ![c] = None]
          /\ respSrc' = [respSrc EXCEPT ![c] = None]
          /\ log' = [log EXCEPT ![c] = << >>]
          /\ pc' = [pc EXCEPT ![c] = "start_notify"]
          /\ UNCHANGED <<command_lock, exc, result, pending, data>>
       \/ /\ exc' = [exc EXCEPT ![c] = "connect"]
          /\ result' = [result EXCEPT ![c] = "raised"]
          /\ command_lock' = release(c, TRUE)
          /\ pc' = [pc EXCEPT ![c] = "idle"]
          /\ pending' = [pending EXCEPT ![c] = None]
          /\ data' = [data EXCEPT ![c] = << >>]
          /\ UNCHANGED <<connected, latch, response, respSrc, log>>
    /\ UNCHANGED <<status, statusSrc, subscribed>>
    /\ UNCHANGED <<codecVars, commandVars>>

\* a start_notify that returns before the handler is registered
start_notify_deferred(c) ==
    /\ pc[c] = "start_notify"
    /\ ops' = [ops EXCEPT ![c] = Append(@, "start_notify")]
    /\ \/ /\ pc' = [pc EXCEPT ![c] = "write"]
          /\ UNCHANGED exc
       \/ /\ exc' = [exc EXCEPT ![c] = "start_notify"]
          /\ pc' = [pc EXCEPT ![c] = "disconnect"]
    /\ UNCHANGED <<status, statusSrc, command_lock, data, connected, subscribed,
                   latch, response, respSrc, log, result>>
    /\ UNCHANGED <<pending, codecVars, commandVars>>

\* await client.start_notify(CHAR_UUID_HEATER_CONTROL, notification_handler)
start_notify(c) ==
    /\ pc[c] = "start_notify"
    /\ ops' = [ops EXCEPT ![c] = Append(@, "start_notify")]
    /\ \/ /\ subscribed' = [subscribed EXCEPT ![c] = TRUE]
          /\ pc' = [pc EXCEPT ![c] = "write"]
          /\ UNCHANGED exc
       \/ /\ exc' = [exc EXCEPT ![c] = "start_notify"]
          /\ pc' = [pc EXCEPT ![c] = "disconnect"]
          /\ UNCHANGED subscribed
    /\ UNCHANGED <<status, statusSrc, command_lock, data, connected, latch, response,
                   respSrc, log, result>>
    /\ UNCHANGED <<pending, codecVars, commandVars>>

\* await client.write_gatt_char(CHAR_UUID_HEATER_CONTROL, data, response=True)
write_gatt_char(c) ==
    /\ pc[c] = "write"
    /\ ops' = [ops EXCEPT ![c] = Append(@, "write")]
    /\ \/ /\ pc' = [pc EXCEPT ![c] = "wait"]
          /\ UNCHANGED exc
       \/ /\ exc' = [exc EXCEPT ![c] = "write"]
          /\ pc' = [pc EXCEPT ![c] = "disconnect"]
    /\ UNCHANGED <<status, statusSrc, command_lock, data, connected, subscribed, latch,
                   response, respSrc, log, result>>
    /\ UNCHANGED <<pending, codecVars, commandVars>>

\* the positions at which the event loop can run the handler of a call
Listening == {"write", "wait", "stop_notify", "disconnect"}

\* notification_handler without the request-type test
notification_handler_no_type_check(c, payload) ==
    /\ subscribed[c]
    /\ pc[c] \in Listening
    /\ Len(log[c]) < MaxNotifs
    /\ IF unpack_raises(payload)
       THEN UNCHANGED <<response, respSrc, latch>>
       ELSE /\ LET st == from_ble_data_array(payload)
               IN IF st = None
                  THEN UNCHANGED <<response, respSrc>>
                  ELSE /\ response' = [response EXCEPT ![c] =
                                          Some(from_ble_status(st[1]))]
                       /\ respSrc' = [respSrc EXCEPT ![c] =
                                         Some(<<payload, data[c][5]>>)]
            /\ latch' = [latch EXCEPT ![c] = TRUE]
    /\ log' = [log EXCEPT ![c] = Append(@, payload)]
    /\ UNCHANGED <<status, statusSrc, command_lock, pc, data, connected, subscribed,
                   ops, exc, result>>
    /\ UNCHANGED <<pending, codecVars, commandVars>>

\* notification_handler with response_received_latch.set() inside the else
notification_handler_latch_in_else(c, payload) ==
    /\ subscribed[c]
    /\ pc[c] \in Listening
    /\ Len(log[c]) < MaxNotifs
    /\ IF unpack_raises(payload)
       THEN UNCHANGED <<response, respSrc, latch>>
       ELSE LET st == from_ble_data_array(payload)
            IN IF st = None
               THEN UNCHANGED <<response, respSrc, latch>>
               ELSE IF st[1].request_type # data[c][5]
               THEN UNCHANGED <<response, respSrc, latch>>
               ELSE /\ response' = [response EXCEPT ![c] =
                                       Some(from_ble_status(st[1]))]
                    /\ respSrc' = [respSrc EXCEPT ![c] =
                                      Some(<<payload, data[c][5]>>)]
                    /\ latch' = [latch EXCEPT ![c] = TRUE]
    /\ log' = [log EXCEPT ![c] = Append(@, payload)]
    /\ UNCHANGED <<status, statusSrc, command_lock, pc, data, connected, subscribed,
                   ops, exc, result>>
    /\ UNCHANGED <<pending, codecVars, commandVars>>

\* a handler that takes no response once the latch is set
notification_handler_until_latch(c, payload) ==
    /\ subscribed[c]
    /\ pc[c] \in Listening
    /\ Len(log[c]) < MaxNotifs
    /\ IF unpack_raises(payload)
       THEN UNCHANGED <<response, respSrc, latch>>
       ELSE /\ LET st == from_ble_data_array(payload)
               IN IF st = None \/ latch[c]
                  THEN UNCHANGED <<response, respSrc>>
                  ELSE IF st[1].request_type # data[c][5]
                  THEN UNCHANGED <<response, respSrc>>
                  ELSE /\ response' = [response EXCEPT ![c] =
                                          Some(from_ble_status(st[1]))]
                       /\ respSrc' = [respSrc EXCEPT ![c] =
                                         Some(<<payload, data[c][5]>>)]
            /\ latch' = [latch EXCEPT ![c] = TRUE]
    /\ log' = [log EXCEPT ![c] = Append(@, payload)]
    /\ UNCHANGED <<status, statusSrc, command_lock, pc, data, connected, subscribed,
                   ops, exc, result>>
    /\ UNCHANGED <<pending, codecVars, commandVars>>

\* notification_handler(_, response_data), run by the event loop while the
\* handler is registered and the call is suspended; a struct.error raised
\* by from_ble_data_array ends the handler before response_received_latch.set()
\* and goes to the event loop, not to the suspended call
notification_handler(c, payload) ==
    /\ subscribed[c]
    /\ pc[c] \in Listening
    /\ Len(log[c]) < MaxNotifs
    /\ IF unpack_raises(payload)
       THEN UNCHANGED <<response, respSrc, latch>>
       ELSE /\ LET st == from_ble_data_array(payload)
               IN IF st = None
                  THEN UNCHANGED <<response, respSrc>>
                  ELSE IF st[1].request_type # data[c][5]
                  THEN UNCHANGED <<response, respSrc>>
                  ELSE /\ response' = [response EXCEPT ![c] =
                                          Some(from_ble_status(st[1]))]
                       /\ respSrc' = [respSrc EXCEPT ![c] =
                                         Some(<<payload, data[c][5]>>)]
            /\ latch' = [latch EXCEPT ![c] = TRUE]
    /\ log' = [log EXCEPT ![c] = Append(@, payload)]
    /\ UNCHANGED <<status, statusSrc, command_lock, pc, data, connected, subscribed,
                   ops, exc, result>>
    /\ UNCHANGED <<pending, codecVars, commandVars>>

\* a wait for the latch that gives up after a timeout
latch_wait_timeout(c) ==
    /\ pc[c] = "wait"
    /\ pc' = [pc EXCEPT ![c] = "stop_notify"]
    /\ UNCHANGED <<status, statusSrc, command_lock, data, connected, subscribed, latch,
                   response, respSrc, log, ops, exc, result>>
    /\ UNCHANGED <<pending, codecVars, commandVars>>

\* await response_received_latch.wait()
latch_wait(c) ==
    /\ pc[c] = "wait"
    /\ latch[c]
    /\ pc' = [pc EXCEPT ![c] = "stop_notify"]
    /\ UNCHANGED <<status, statusSrc, command_lock, data, connected, subscribed, latch,
                   response, respSrc, log, ops, exc, result>>
    /\ UNCHANGED <<pending, codecVars, commandVars>>

\* await client.stop_notify(CHAR_UUID_HEATER_CONTROL), then "return response"
\* enters the finally block
stop_notify(c) ==
    /\ pc[c] = "stop_notify"
    /\ ops' = [ops EXCEPT ![c] = Append(@, "stop_notify")]
    /\ \/ /\ subscribed' = [subscribed EXCEPT ![c] = FALSE]
          /\ UNCHANGED exc
       \/ /\ exc' = [exc EXCEPT ![c] = "stop_notify"]
          /\ UNCHANGED subscribed
    /\ pc' = [pc EXCEPT ![c] = "disconnect"]
    /\ UNCHANGED <<status, statusSrc, command_lock, data, connected, latch, response,
                   respSrc, log, result>>
    /\ UNCHANGED <<pending, codecVars, commandVars>>

\* "self.status = response" without the test for None
assign_status_always(resp, old) == resp

\* "if response is not None: self.status = response" of the five callers
assign_status(resp, old) == IF resp # None THEN resp ELSE old

\* finally: await client.disconnect(); the lock is released; the call
\* returns response to its caller, which stores it, or raises; after a
\* _set_operational_mode that returned, the coroutine goes on to _set_target
disconnect(c) ==
    /\ pc[c] = "disconnect"
    /\ ops' = [ops EXCEPT ![c] = Append(@, "disconnect")]
    /\ \E ok \in BOOLEAN :
         LET raised == IF exc[c] # "none" THEN exc[c]
                       ELSE IF ok THEN "none" ELSE "disconnect"
         IN /\ connected' = [connected EXCEPT ![c] = IF ok THEN FALSE ELSE @]
            /\ subscribed' = [subscribed EXCEPT ![c] = IF ok THEN FALSE ELSE @]
            /\ exc' = [exc EXCEPT ![c] = raised]
            /\ command_lock' = release(c, raised # "none")
            /\ IF raised = "none"
               THEN /\ result' = [result EXCEPT ![c] = "returned"]
                    /\ status' = assign_status(response[c], status)
                    /\ statusSrc' = assign_status(respSrc[c], statusSrc)
                    /\ pc' = [pc EXCEPT ![c] =
                                IF pending[c] # None THEN "set_target" ELSE "idle"]
                    /\ UNCHANGED pending
               ELSE /\ result' = [result EXCEPT ![c] = "raised"]
                    /\ pc' = [pc EXCEPT ![c] = "idle"]
                    /\ pending' = [pending EXCEPT ![c] = None]
                    /\ UNCHANGED <<status, statusSrc>>
    /\ data' = [data EXCEPT ![c] = << >>]
    /\ latch' = [latch EXCEPT ![c] = FALSE]
    /\ response' = [response EXCEPT ![c] = None]
    /\ respSrc' = [respSrc EXCEPT ![c] = None]
    /\ log' = [log EXCEPT ![c] = << >>]
    /\ UNCHANGED <<codecVars, commandVars>>

Init ==
    /\ CodecIdle
    /\ SessionInit
    /\ CommandIdle

Next ==
    \E c \in Callers :
        \/ \E device \in BLEDevices : refresh_status(c, device)
        \/ \E device \in BLEDevices : turn_on(c, device)
        \/ \E device \in BLEDevices : turn_off(c, device)
        \/ \E device \in BLEDevices, temperature \in Temperatures :
              set_target_temperature(c, device, temperature)
        \/ \E device \in BLEDevices, power_level \in PowerLevels :
              set_target_power_level(c, device, power_level)
        \/ set_target(c)
        \/ acquire(c)
        \/ establish_connection(c)
        \/ start_notify(c)
        \/ write_gatt_char(c)
        \/ \E payload \in NotifyPayloads : notification_handler(c, payload)
        \/ latch_wait(c)
        \/ stop_notify(c)
        \/ disconnect(c)

Spec == Init /\ [][Next]_vars

----------------------------------------------------------------------------
\* Payloads of any length: the characteristic delivers whatever the heater
\* sends, and from_ble_data_array is applied to it.

\* the longest payload delivered
MaxPayloadLen == 24

\* payload b cut or zero-extended to n bytes
Resize(b, n) == [i \in 1..n |-> IF i <= Len(b) THEN b[i] ELSE 0]

LengthInit ==
    /\ \E b \in {RunningPayload, OffPayload, BadChecksumPayload, BadRangePayload},
          n \in 0..MaxPayloadLen :
            buffer = Resize(b, n)
    /\ cpc = "input"
    /\ parsed = None
    /\ verification_errors = << >>
    /\ converted = None
    /\ SessionInit
    /\ CommandIdle

LengthSpec == LengthInit /\ [][CodecNext]_vars

----------------------------------------------------------------------------
\* The command frames: each coroutine builds its data and hands it to
\* _send_ble_command, which passes it unchanged to write_gatt_char.

\* the values a bytearray element can take
ByteValues == 0..255

\* the calls whose frames are built: mode is an OperationalMode member,
\* target any value a bytearray element accepts
Commands ==
    { [op |-> o, arg |-> 0] : o \in {"refresh_status", "turn_on", "turn_off"} }
    \cup { [op |-> "_set_operational_mode", arg |-> m] : m \in ModeValues }
    \cup { [op |-> "_set_target", arg |-> v] : v \in ByteValues }

CommandInit ==
    /\ command \in Commands
    /\ frame = None
    /\ CodecIdle
    /\ SessionInit

\* the command hands frame d to _send_ble_command
Build(op, d) ==
    /\ command.op = op
    /\ frame = None
    /\ frame' = Some(d)
    /\ UNCHANGED command
    /\ UNCHANGED <<codecVars, sessionVars>>

build_refresh_status == Build("refresh_status", refresh_status_data)

build_turn_on == Build("turn_on", turn_on_data)

build_turn_off == Build("turn_off", turn_off_data)

build_set_operational_mode ==
    Build("_set_operational_mode", set_operational_mode_data(command.arg))

build_set_target == Build("_set_target", set_target_data(command.arg))

CommandNext ==
    \/ build_refresh_status
    \/ build_turn_on
    \/ build_turn_off
    \/ build_set_operational_mode
    \/ build_set_target

CommandSpec == CommandInit /\ [][CommandNext]_vars

----------------------------------------------------------------------------
\* Properties of the command session, checked under Spec.

\* payload p passes from_ble_data_array and answers the request of frame d
Matches(p, d) ==
    /\ ~ unpack_raises(p)
    /\    from_ble_data_array(p) # None /\ Unpack(p).request_type = d[5]

\* payload p passes from_ble_data_array and answers another request
Mismatched(p, d) ==
    /\ ~ unpack_raises(p)
    /\    from_ble_data_array(p) # None /\ Unpack(p).request_type # d[5]

\* payload p fails a range check or the checksum check
Invalid(p) == ~ unpack_raises(p) /\ from_ble_data_array(p) = None

\* the status of the last payload of l that matches frame d, None if none does
RECURSIVE LastMatching(_, _)
LastMatching(l, d) ==
    IF l = << >> THEN None
    ELSE IF Matches(l[Len(l)], d) THEN Some(from_ble_status(Unpack(l[Len(l)])))
    ELSE LastMatching(SubSeq(l, 1, Len(l) - 1), d)

\* C1: calls of _send_ble_command never overlap between acquiring and
\* releasing command_lock: at most one call is past the acquisition, it
\* holds the lock, and a call still queued for the lock has made no
\* connect, start_notify or write.
C1_NoInterleaving ==
    /\ \A a, b \in Callers :
          a # b => ~ (pc[a] \in Critical /\ pc[b] \in Critical)
    /\ \A c \in Callers : pc[c] \in Critical => command_lock
    /\ \A c \in Callers :
          pc[c] = "lock" => ops[c] = << >> /\ ~ connected[c] /\ ~ subscribed[c]

\* C1's case: one call has written its frame and waits for the latch while
\* a second call is queued for the lock.
C1_Witness ==
    \E a, b \in Callers :
        /\ a # b
        /\ pc[a] = "wait" /\ ops[a] = <<"connect", "start_notify", "write">>
        /\ pc[b] = "lock"

\* C2 as stated: while only verified notifications of another request type
\* have been delivered, the call is not resolved and keeps waiting.
C2_MismatchKeepsWaiting ==
    \A c \in Callers :
        ( pc[c] \in Listening /\ exc[c] = "none" /\ log[c] # << >>
          /\ \A i \in 1..Len(log[c]) : Mismatched(log[c][i], data[c]) )
        => ~ latch[c] /\ pc[c] \in {"write", "wait"}

\* C2 as amended: a verified notification of another request type leaves the
\* response of the call as it was but sets the latch, and a matching
\* notification delivered while the handler is registered sets the response
\* to its status.
C2_MismatchDiscardedLatchSet ==
    \A c \in Callers :
        ( pc[c] \in Listening /\ log[c] # << >> )
        => LET last == log[c][Len(log[c])]
               before == SubSeq(log[c], 1, Len(log[c]) - 1)
           IN /\ Mismatched(last, data[c]) =>
                   latch[c] /\ response[c] = LastMatching(before, data[c])
              /\ Matches(last, data[c]) =>
                   latch[c] /\ response[c] = Some(from_ble_status(Unpack(last)))

\* C2's case: a mismatched notification, then a matching one, were delivered
\* before stop_notify completed, and the response is the matching status.
C2_Witness ==
    \E c \in Callers :
        /\ pc[c] = "stop_notify"
        /\ Len(log[c]) = 2
        /\ Mismatched(log[c][1], data[c])
        /\ Matches(log[c][2], data[c])
        /\ response[c] # None

\* C3 as stated: while only notifications that fail decoding have been
\* delivered, the call is not resolved and keeps waiting.
C3_InvalidKeepsWaiting ==
    \A c \in Callers :
        ( pc[c] \in Listening /\ exc[c] = "none" /\ log[c] # << >>
          /\ \A i \in 1..Len(log[c]) : Invalid(log[c][i]) )
        => ~ latch[c] /\ pc[c] \in {"write", "wait"}

\* C3 as amended: a notification that fails decoding raises nothing and
\* leaves the response of the call as it was, but sets the latch; a call
\* that received only such notifications returns None.
C3_InvalidDiscardedLatchSet ==
    \A c \in Callers :
        ( pc[c] \in Listening /\ log[c] # << >> )
        => LET last == log[c][Len(log[c])]
               before == SubSeq(log[c], 1, Len(log[c]) - 1)
           IN /\ Invalid(last) =>
                   /\ latch[c]
                   /\ response[c] = LastMatching(before, data[c])
                   /\ exc[c] \in {"none", "write", "stop_notify"}
              /\ ( (\A i \in 1..Len(log[c]) : Invalid(log[c][i]))
                   /\ pc[c] = "disconnect" /\ exc[c] = "none" )
                 => response[c] = None /\ ~ subscribed[c]

\* C3's case: two frames that fail verification were delivered, and the
\* call is about to return None.
C3_Witness ==
    \E c \in Callers :
        /\ pc[c] = "disconnect" /\ exc[c] = "none"
        /\ log[c] = <<BadChecksumPayload, BadChecksumPayload>>
        /\ response[c] = None

\* a status with every field of a powered-on heater, or the Off sentinel
Complete(st) ==
    \/ st = [ power_status           |-> <<"OFF">>,
              operational_mode       |-> << >>,
              operational_status     |-> << >>,
              elevation              |-> << >>,
              target_temperature     |-> << >>,
              target_power_level     |-> << >>,
              current_power_level    |-> << >>,
              input_voltage          |-> << >>,
              combustion_temperature |-> << >>,
              room_temperature       |-> << >>,
              error                  |-> << >> ]
    \/ /\ st.power_status \in {<<"RUNNING">>, <<"ERROR">>}
       /\ st.operational_status # << >> /\ st.operational_status # <<"ValueError">>
       /\ st.operational_mode # <<"ValueError">>
       /\ st.error # << >> /\ st.error # <<"ValueError">>
       /\ st.elevation # << >> /\ st.current_power_level # << >>
       /\ st.input_voltage # << >> /\ st.combustion_temperature # << >>
       /\ st.room_temperature # << >>

\* status is its initial value, or the whole status built from a verified
\* notification that matched the request type of the command in flight
StatusProvenance ==
    \/ status = None
    \/ /\ statusSrc # None
       /\ from_ble_data_array(statusSrc[1][1]) # None
       /\ Unpack(statusSrc[1][1]).request_type = statusSrc[1][2]
       /\ status = Some(from_ble_status(Unpack(statusSrc[1][1])))
       /\ Complete(status[1])

\* a call that ends by raising or with no accepted notification leaves
\* status alone; a call that ends with a response stores that response
StatusStep ==
    \A c \in Callers :
        ( pc[c] \notin {"idle", "set_target"} /\ pc'[c] \in {"idle", "set_target"} )
        => IF exc'[c] # "none" \/ response[c] = None
           THEN status' = status
           ELSE status' = response[c]

\* C4: status is always the initial value or the complete status of a
\* verified, matching notification; a successful response replaces it as a
\* whole, and a call ending with a discarded notification or an exception
\* leaves it unchanged.
C4_StatusOnlyFromAcceptedResponse == [] StatusProvenance /\ [][StatusStep]_vars

\* C4's case: status holds a running status, and a later call is ending
\* with only a discarded notification.
C4_Witness ==
    /\ status # None
    /\ status[1].power_status = <<"RUNNING">>
    /\ \E c \in Callers :
          /\ pc[c] = "disconnect" /\ exc[c] = "none"
          /\ log[c] # << >> /\ response[c] = None

\* C5 as stated: a call ended by a failure of connect, start_notify or write
\* has raised, has unsubscribed the handler it registered and no longer
\* holds the lock.
C5_FailureUnsubscribes ==
    \A c \in Callers :
        ( pc[c] = "idle" /\ exc[c] \in {"connect", "start_notify", "write"} )
        => /\ result[c] = "raised"
           /\ exc[c] = "write" => "stop_notify" \in Members(ops[c])
           /\ command_lock => \E d \in Callers : d # c /\ pc[d] \in Critical

\* C5 as amended: such a call has raised without calling stop_notify, has
\* called disconnect last if a connection was established, and no longer
\* holds the lock, so the lock is held only by another call that is running.
C5_FailureReleasesLock ==
    \A c \in Callers :
        ( pc[c] = "idle" /\ exc[c] \in {"connect", "start_notify", "write"} )
        => /\ result[c] = "raised"
           /\ "stop_notify" \notin Members(ops[c])
           /\ exc[c] = "connect" => ops[c] = <<"connect">>
           /\ exc[c] = "start_notify" =>
                ops[c] = <<"connect", "start_notify", "disconnect">>
           /\ exc[c] = "write" =>
                ops[c] = <<"connect", "start_notify", "write", "disconnect">>
           /\ command_lock => \E d \in Callers : d # c /\ pc[d] \in Critical

\* C5's case: one call was ended by a write failure, and another call has
\* since acquired the lock and written its frame.
C5_Witness ==
    \E c, d \in Callers :
        /\ c # d
        /\ pc[c] = "idle" /\ exc[c] = "write" /\ result[c] = "raised"
        /\ pc[d] = "wait"

\* while the _set_operational_mode of a set_target_* coroutine is in
\* flight its frame is the set-mode frame of the coroutine's mode; between
\* the two commands the first has returned after its disconnect and the
\* coroutine does not hold the lock
CompositeOrder ==
    \A c \in Callers :
        /\ pending[c] # None =>
              /\ pc[c] # "idle"
              /\ pending[c][1] \in { <<2, t>> : t \in Temperatures }
                                   \cup { <<1, l>> : l \in PowerLevels }
        /\ ( pending[c] # None /\ pc[c] # "set_target" ) =>
              data[c] = <<170, 85, 12, 34, 2, pending[c][1][1], 0,
                          (12 + 34 + 2 + pending[c][1][1]) % 256>>
        /\ pc[c] = "set_target" =>
              /\ pending[c] # None
              /\ result[c] = "returned" /\ exc[c] = "none"
              /\ ops[c] = <<"connect", "start_notify", "write", "stop_notify",
                            "disconnect">>
              /\ command_lock => \E d \in Callers : d # c /\ pc[d] \in Critical

\* the coroutine starts with the set-mode command, goes on to the set-target
\* command exactly when the set-mode command returned, releasing the lock in
\* between, and queues for the lock again with the set-target frame
CompositeStep ==
    \A c \in Callers :
        /\ ( pending[c] = None /\ pending'[c] # None ) =>
              pc[c] = "idle" /\ pc'[c] = "lock"
        /\ ( pc[c] # "set_target" /\ pc'[c] = "set_target" ) =>
              /\ pc[c] = "disconnect" /\ exc[c] = "none"
              /\ command_lock /\ ~ command_lock'
        /\ ( pending[c] # None /\ pending'[c] = None /\ pc[c] # "set_target" ) =>
              pc'[c] = "idle" /\ exc'[c] # "none" /\ result'[c] = "raised"
        /\ pc[c] = "set_target" =>
              \/ pc'[c] = "set_target" /\ pending'[c] = pending[c]
              \/ /\ pc'[c] = "lock"
                 /\ data'[c] = <<170, 85, 12, 34, 4, pending[c][1][2], 0,
                                 (12 + 34 + 4 + pending[c][1][2]) % 256>>
                 /\ pending'[c] = None
                 /\ ops'[c] = << >>
                 /\ command_lock' = command_lock
        /\ ( pc[c] \in Critical /\ pending[c] = None /\ pc'[c] \notin Critical ) =>
              pc'[c] = "idle"

\* C13: set_target_temperature and set_target_power_level each issue the
\* set-mode command and then the set-target command, and no third; each
\* command acquires command_lock on its own, the lock being free between
\* the two, so that the command of a concurrent caller can run in between.
C13_TwoCommandsNotAtomic == [] CompositeOrder /\ [][CompositeStep]_vars

\* C13's case: the set-mode command of set_target_temperature(8) has
\* returned and its set-target command is queued for the lock, while the
\* refresh_status of the other caller holds the lock and waits for its reply.
C13_Witness ==
    \E c, d \in Callers :
        /\ c # d
        /\ pc[c] = "lock" /\ data[c] = <<170, 85, 12, 34, 4, 8, 0, 58>>
        /\ pc[d] = "wait" /\ data[d] = refresh_status_data

\* a call waiting for the latch holds the lock with its handler registered,
\* and every other call is outside the "async with" block
WaitHoldsLock ==
    \A c \in Callers :
        pc[c] = "wait" =>
            /\ command_lock /\ connected[c] /\ subscribed[c]
            /\ ops[c] = <<"connect", "start_notify", "write">>
            /\ \A d \in Callers : d # c => pc[d] \notin Critical

\* a call leaves the wait only with the latch set by a delivered
\* notification; a step that delivers it no notification leaves it waiting
\* with the latch unset, the lock held and no queued call admitted
WaitStep ==
    \A c \in Callers :
        /\ ( pc[c] = "wait" /\ pc'[c] # "wait" ) =>
              /\ latch[c] /\ log[c] # << >>
              /\ pc'[c] = "stop_notify"
        /\ ( pc[c] = "wait" /\ ~ latch[c] /\ log'[c] = log[c] ) =>
              /\ pc'[c] = "wait" /\ ~ latch'[c]
              /\ command_lock'
              /\ \A d \in Callers :
                    d # c => ( pc'[d] \notin Critical
                               /\ (pc[d] = "lock" => pc'[d] = "lock") )

\* C14: a call whose frame has been written has no timeout: it leaves the
\* wait only once a notification has been delivered and set the latch;
\* as long as none is delivered it stays in the wait, command_lock stays
\* held and every later command stays queued.
C14_NoTimeout == [] WaitHoldsLock /\ [][WaitStep]_vars

\* C14's case: a call has written its frame and waits with no notification
\* delivered, and a later command is queued for the lock it holds.
C14_Witness ==
    \E c, d \in Callers :
        /\ c # d
        /\ pc[c] = "wait" /\ ~ latch[c] /\ log[c] = << >>
        /\ pc[d] = "lock"

\* the BLEDevice objects whose address is not the device's
WrongDevices == BLEDevices \ {DeviceAddress}

\* the frames the public coroutines pass first to _send_ble_command
FirstFrames ==
    {refresh_status_data, turn_on_data, turn_off_data}
    \cup { set_operational_mode_data(m) : m \in ModeValues }

\* a call that raised the address mismatch has ended without queueing for
\* the lock and without a transport call, and a caller that is not inside a
\* call can be failed this way whoever holds the lock
MismatchRaised ==
    \A c \in Callers :
        /\ exc[c] = "address" =>
              /\ pc[c] = "idle" /\ result[c] = "raised"
              /\ ops[c] = << >> /\ ~ connected[c] /\ ~ subscribed[c]
              /\ pending[c] = None
        /\ pc[c] = "idle" =>
              \A device \in WrongDevices : ENABLED refresh_status(c, device)

\* a call with a BLEDevice of another address raises the address mismatch
\* in the step it is made, leaving status, the lock and every other call
\* as they were
MismatchStep ==
    \A c \in Callers, device \in WrongDevices, d \in FirstFrames :
        Send(c, device, d) =>
            /\ exc'[c] = "address" /\ result'[c] = "raised"
            /\ pc'[c] = "idle" /\ ops'[c] = << >>
            /\ ~ connected'[c] /\ ~ subscribed'[c]
            /\ status' = status /\ command_lock' = command_lock
            /\ \A o \in Callers \ {c} :
                  /\ pc'[o] = pc[o] /\ ops'[o] = ops[o]
                  /\ response'[o] = response[o] /\ latch'[o] = latch[o]

\* C15: a command called with a BLEDevice whose address differs from the
\* device's fails with the address-mismatch error before acquiring the
\* lock and before any connect, subscribe or write, leaves status
\* unchanged, and fails at once even while another command holds the lock.
C15_AddressMismatch == [] MismatchRaised /\ [][MismatchStep]_vars

\* C15's case: a call has raised the address mismatch while the call of the
\* other caller holds the lock and waits for its reply.
C15_Witness ==
    \E c, d \in Callers :
        /\ c # d
        /\ pc[c] = "idle" /\ exc[c] = "address" /\ result[c] = "raised"
        /\ pc[d] = "wait" /\ command_lock

\* the transport calls of a call at each of its positions: connect, then
\* start_notify, then write, then (after the latch) stop_notify, then
\* disconnect; a failure goes straight to disconnect
OrderedOps ==
    \A c \in Callers :
        /\ pc[c] \in Critical => command_lock
        /\ pc[c] \in {"lock", "connect"} => ops[c] = << >> /\ ~ connected[c]
        /\ pc[c] = "start_notify" =>
              ops[c] = <<"connect">> /\ connected[c] /\ ~ subscribed[c]
        /\ pc[c] = "write" =>
              ops[c] = <<"connect", "start_notify">> /\ connected[c] /\ subscribed[c]
        /\ pc[c] = "wait" =>
              ops[c] = <<"connect", "start_notify", "write">> /\ subscribed[c]
        /\ pc[c] = "stop_notify" =>
              ops[c] = <<"connect", "start_notify", "write">> /\ latch[c]
        /\ pc[c] = "disconnect" =>
              /\ connected[c]
              /\ \/ exc[c] = "start_notify" /\ ops[c] = <<"connect", "start_notify">>
                 \/ exc[c] = "write"
                      /\ ops[c] = <<"connect", "start_notify", "write">>
                 \/ exc[c] \in {"none", "stop_notify"}
                      /\ ops[c] = <<"connect", "start_notify", "write", "stop_notify">>
        /\ ( pc[c] \in {"idle", "set_target"} /\ ops[c] # << >> ) =>
              \/ exc[c] = "connect" /\ ops[c] = <<"connect">> /\ ~ connected[c]
              \/ ops[c][Len(ops[c])] = "disconnect"

\* the lock is acquired by a queued call that has made no transport call,
\* and released only by the disconnect of the call that holds it or by a
\* connect that established no connection
LockStep ==
    /\ ( ~ command_lock /\ command_lock' ) =>
          \E c \in Callers :
              pc[c] = "lock" /\ pc'[c] = "connect" /\ ops'[c] = << >>
    /\ ( command_lock /\ ~ command_lock' ) =>
          \E c \in Callers :
              \/ /\ pc[c] = "disconnect"
                 /\ ops'[c] = Append(ops[c], "disconnect")
              \/ /\ pc[c] = "connect"
                 /\ exc'[c] = "connect" /\ ~ connected'[c]

\* C16: every call acquires the lock, connects, registers the notification
\* handler, writes the frame, waits for the latch, unregisters the handler,
\* disconnects and releases the lock, in this order; the write never
\* precedes the registration, and every established connection has its
\* disconnect called before the lock is released, whether the call returns
\* or raises.
C16_CallOrder == [] OrderedOps /\ [][LockStep]_vars

\* C16's case: a call whose write failed after the handler was registered
\* is in its finally block, about to disconnect with the lock still held.
C16_Witness ==
    \E c \in Callers :
        /\ pc[c] = "disconnect" /\ exc[c] = "write"
        /\ ops[c] = <<"connect", "start_notify", "write">>
        /\ connected[c] /\ command_lock

\* the handler is registered from the write until stop_notify completes,
\* and all along the response of the call is the status of the last
\* verified, matching notification delivered to it so far, None if none
LastMatchingWins ==
    \A c \in Callers :
        /\ pc[c] \in {"write", "wait", "stop_notify"} => subscribed[c]
        /\ pc[c] \in Listening => response[c] = LastMatching(log[c], data[c])
        /\ ( pc[c] = "disconnect" /\ exc[c] = "none" ) => ~ subscribed[c]

\* the call returns the response it holds when stop_notify has completed
ReturnStep ==
    \A c \in Callers :
        ( pc[c] = "disconnect" /\ pc'[c] # "disconnect" /\ exc'[c] = "none" )
        => LET returned == LastMatching(log[c], data[c])
           IN status' = IF returned # None THEN returned ELSE status

\* C17: the handler stays registered until stop_notify completes, so the
\* value a call returns is the status of the last verified, matching
\* notification delivered between start_notify and the completion of
\* stop_notify, or None if there was none; a notification delivered after
\* the latch is set and before stop_notify completes still changes it.
C17_LastNotificationReturned == [] LastMatchingWins /\ [][ReturnStep]_vars

\* C17's case: turn_on got a frame with a wrong checksum, which set the
\* latch, and then the matching Off frame before stop_notify completed;
\* the call is about to return the Off status instead of None.
C17_Witness ==
    \E c \in Callers :
        /\ pc[c] = "disconnect" /\ exc[c] = "none"
        /\ data[c] = turn_on_data
        /\ log[c] = <<BadChecksumPayload, OffPayload>>
        /\ response[c] = Some(OffStatus)

----------------------------------------------------------------------------
\* Properties of the codec, checked under CodecSpec.

\* the raw fields of the payload being decoded
Raw == Unpack(buffer)

\* the checksum a frame must carry: the sum of the eleven checksummed fields
\* modulo 256
ExpectedChecksum(b) ==
    ( b[4] + b[5] + b[6] + (b[7] + 256 * b[8]) + b[9] + b[10] + b[11]
      + (b[12] + 256 * b[13]) + (b[14] + 256 * b[15]) + (b[16] + 256 * b[17])
      + b[18] ) % 256

\* the fields of a frame that lie outside their documented range
OutOfRangeFields(f) ==
    { n \in { "request_type", "power_status", "error", "operational_status",
              "operational_mode", "target_temperature_or_level",
              "current_power_level", "display_error" } :
        \/ n = "request_type" /\ f.request_type \notin 1..4
        \/ n = "power_status" /\ f.power_status \notin 0..2
        \/ n = "error" /\ f.error \notin 0..10
        \/ n = "operational_status" /\ f.operational_status \notin 0..4
        \/ n = "operational_mode" /\ f.operational_mode \notin 0..2
        \/ n = "target_temperature_or_level"
             /\ \/ f.operational_mode = 1 /\ f.target_temperature_or_level \notin 1..10
                \/ f.operational_mode = 2 /\ f.target_temperature_or_level \notin 8..36
                \/ f.operational_mode = 0 /\ f.target_temperature_or_level # 0
        \/ n = "current_power_level"
             /\ f.operational_mode = 2 /\ f.current_power_level \notin 0..9
        \/ n = "display_error" /\ f.display_error \notin 0..10 }

\* C6: a powered-on frame with exactly one field out of range is rejected,
\* and the verification errors name that field.
C6_SingleOutOfRangeFieldNamed ==
    ( cpc # "input" /\ Raw.power_status # 0
      /\ Cardinality(OutOfRangeFields(Raw)) = 1 )
    => /\ parsed = None
       /\ OutOfRangeFields(Raw) \subseteq Members(verification_errors)

\* C7: a frame with power_status == 0 is accepted exactly when its checksum
\* byte matches, whatever its other fields hold, and then converts to the
\* Off sentinel with every other field unset.
C7_OffFrameDecoding ==
    ( cpc # "input" /\ Raw.power_status = 0 )
    => IF buffer[20] = ExpectedChecksum(buffer)
       THEN /\ parsed = Some(Raw)
            /\ verification_errors = << >>
            /\ cpc = "converted" =>
                 converted = Some([ power_status           |-> <<"OFF">>,
                                    operational_mode       |-> << >>,
                                    operational_status     |-> << >>,
                                    elevation              |-> << >>,
                                    target_temperature     |-> << >>,
                                    target_power_level     |-> << >>,
                                    current_power_level    |-> << >>,
                                    input_voltage          |-> << >>,
                                    combustion_temperature |-> << >>,
                                    room_temperature       |-> << >>,
                                    error                  |-> << >> ])
       ELSE /\ parsed = None
            /\ verification_errors = <<"checksum">>

\* C7's case: an Off frame whose request_type, error, operational_mode and
\* display_error are all out of range has been decoded to the Off sentinel.
C7_Witness ==
    /\ cpc = "converted"
    /\ Raw.power_status = 0
    /\ Raw.request_type = 0 /\ Raw.error = 11 /\ Raw.operational_mode = 3
    /\ Raw.display_error = 11
    /\ converted # None /\ converted[1].power_status = <<"OFF">>

\* C8: an accepted frame carries the expected checksum, and the same frame
\* with any other checksum byte fails verification with a checksum failure
\* (from_ble_data_array rejects a frame whose verification errors are not
\* empty).
C8_ChecksumGate ==
    ( cpc = "parsed" /\ parsed # None )
    => /\ buffer[20] = ExpectedChecksum(buffer)
       /\ \A k \in 0..255 :
             k # buffer[20] =>
               VerificationErrors(Unpack([buffer EXCEPT ![20] = k])) = <<"checksum">>

\* C8's case: a powered-on frame whose elevation exceeds one byte has been
\* accepted.
C8_Witness ==
    /\ cpc = "parsed"
    /\ parsed # None
    /\ Raw.power_status = 1 /\ Raw.elevation > 255

\* C9: for an accepted powered-on frame, mode TargetTemperature derives
\* current_power_level as the raw level + 1, and mode PowerLevel derives
\* current_power_level and target_power_level as target_temperature_or_level.
C9_DerivedPowerLevel ==
    ( cpc = "converted" /\ Raw.power_status # 0 )
    => /\ Raw.operational_mode = 2 =>
            converted[1].current_power_level = <<Raw.current_power_level + 1>>
       /\ Raw.operational_mode = 1 =>
            /\ converted[1].current_power_level = <<Raw.target_temperature_or_level>>
            /\ converted[1].target_power_level = <<Raw.target_temperature_or_level>>

\* C10 as stated: every status of an accepted powered-on frame has exactly
\* one of target_temperature and target_power_level populated.
C10_ExactlyOneTarget ==
    ( cpc = "converted" /\ Raw.power_status # 0 )
    => ( (converted[1].target_temperature # << >>)
         # (converted[1].target_power_level # << >>) )

\* C10 as amended: target_temperature (8..36) alone is populated in mode
\* TargetTemperature, target_power_level (1..10) alone in mode PowerLevel,
\* neither in mode 0, and never both.
C10_TargetPerMode ==
    ( cpc = "converted" /\ Raw.power_status # 0 )
    => LET tt == converted[1].target_temperature
           tp == converted[1].target_power_level
       IN /\ Raw.operational_mode \in {0, 1, 2}
          /\ Raw.operational_mode = 2 =>
               /\ tt = <<Raw.target_temperature_or_level>>
               /\ Raw.target_temperature_or_level \in 8..36
               /\ tp = << >>
          /\ Raw.operational_mode = 1 =>
               /\ tp = <<Raw.target_temperature_or_level>>
               /\ Raw.target_temperature_or_level \in 1..10
               /\ tt = << >>
          /\ Raw.operational_mode = 0 => tt = << >> /\ tp = << >>
          /\ ~ (tt # << >> /\ tp # << >>)

\* C10's case: a powered-on frame with operational_mode 0 has been accepted
\* and converted, with neither target populated.
C10_Witness ==
    /\ cpc = "converted"
    /\ Raw.power_status = 1 /\ Raw.operational_mode = 0
    /\ converted[1].target_temperature = << >>
    /\ converted[1].target_power_level = << >>

----------------------------------------------------------------------------
\* Properties of the command frames, checked under CommandSpec.

\* the request type and parameter bytes the protocol assigns to a command
RequestOf(cmd) ==
    CASE cmd.op = "refresh_status"        -> <<1, 0>>
      [] cmd.op = "_set_operational_mode" -> <<2, cmd.arg>>
      [] cmd.op = "turn_on"               -> <<3, 1>>
      [] cmd.op = "turn_off"              -> <<3, 0>>
      [] cmd.op = "_set_target"           -> <<4, cmd.arg>>

\* C11: every command frame is the 8 bytes AA 55 0C 22, request type,
\* parameter, 00, checksum, with the request type and parameter of its
\* command and checksum = sum(bytes[2:7]) mod 256; turn_on ends in 0x32,
\* turn_off in 0x31 and refresh_status in 0x2F.
C11_CommandFrame ==
    frame # None =>
        LET f == frame[1]
            rq == RequestOf(command)
        IN /\ Len(f) = 8
           /\ f[1] = 170 /\ f[2] = 85 /\ f[3] = 12 /\ f[4] = 34
           /\ f[5] = rq[1] /\ f[6] = rq[2] /\ f[7] = 0
           /\ f[8] = (f[3] + f[4] + f[5] + f[6] + f[7]) % 256
           /\ f[8] \in ByteValues
           /\ command.op = "turn_on" => f[8] = 50
           /\ command.op = "turn_off" => f[8] = 49
           /\ command.op = "refresh_status" => f[8] = 47

\* C11's case: the frame of _set_target(255) has been built, and its
\* checksum wrapped around to 0x31.
C11_Witness ==
    /\ command = [op |-> "_set_target", arg |-> 255]
    /\ frame = Some(<<170, 85, 12, 34, 4, 255, 0, 49>>)

----------------------------------------------------------------------------
\* Properties of decoding payloads of any length, checked under LengthSpec.

\* C12 as stated: a payload of exactly 16 bytes is parsed and validated,
\* and a payload of any other length is rejected with a decode failure,
\* from_ble_data_array returning without raising.
C12_SixteenBytesOrRejected ==
    cpc # "input" =>
        IF Len(buffer) = 16
        THEN cpc \in {"parsed", "converted"}
        ELSE cpc = "parsed" /\ parsed = None

\* C12 as amended: a payload of exactly 20 bytes, the size of the struct,
\* is parsed into the fixed layout and validated; for a payload of any
\* other length from_ble_data_array raises struct.error, returning no
\* result and recording no verification error.
C12_TwentyBytesOrStructError ==
    cpc # "input" =>
        IF Len(buffer) = 20
        THEN /\ cpc \in {"parsed", "converted"}
             /\ verification_errors = VerificationErrors(Unpack(buffer))
             /\ parsed = IF verification_errors = << >>
                         THEN Some(Unpack(buffer)) ELSE None
        ELSE /\ cpc = "struct.error"
             /\ parsed = None /\ verification_errors = << >> /\ converted = None

\* C12's case: from_ble_data_array was applied to a payload of 16 bytes and
\* raised struct.error.
C12_Witness ==
    /\ Len(buffer) = 16
    /\ cpc = "struct.error"

\* the values on which each Enum constructor of from_ble_status returns
PowerStatusValues == {0, 1, 2}
OperationalStatusValues == 0..4
OperationalModeValues == {1, 2}
HeaterErrorValues == 0..10

\* C18: from_ble_status is applied only to a frame that passed _verify, and
\* every such frame converts without raising: power_status, operational_status,
\* operational_mode (0 giving None) and display_error of a powered-on frame
\* lie in the domains of their enums, also when any one of them is replaced
\* by another value _verify accepts, and the result is the Off sentinel or a
\* complete status, never a partial one.
C18_AcceptedFramesConvert ==
    cpc = "converted" =>
        /\ parsed = Some(Raw) /\ verification_errors = << >>
        /\ Raw.power_status # 0 =>
              /\ Raw.power_status \in PowerStatusValues
              /\ Raw.operational_status \in OperationalStatusValues
              /\ Raw.operational_mode \in OperationalModeValues \cup {0}
              /\ Raw.display_error \in HeaterErrorValues
        /\ converted # None
        /\ Complete(converted[1])
        /\ \A field \in { converted[1].power_status, converted[1].operational_mode,
                           converted[1].operational_status, converted[1].error } :
              field # <<"ValueError">>
        /\ Raw.power_status # 0 =>
              \A v \in ByteValues :
                  /\ RangeErrors([Raw EXCEPT !.power_status = v]) = << >>
                       => PowerStatus(v) # "ValueError"
                  /\ RangeErrors([Raw EXCEPT !.operational_status = v]) = << >>
                       => OperationalStatus(v) # "ValueError"
                  /\ RangeErrors([Raw EXCEPT !.operational_mode = v]) = << >>
                       => ( v = 0 \/ OperationalMode(v) # "ValueError" )
                  /\ RangeErrors([Raw EXCEPT !.display_error = v]) = << >>
                       => HeaterError(v) # "ValueError"

\* C18's case: an accepted frame holding the largest value of each enum
\* (power_status 2, operational_status 4, display_error 10) and
\* operational_mode 0 has been converted.
C18_Witness ==
    /\ cpc = "converted"
    /\ Raw.power_status = 2 /\ Raw.operational_status = 4
    /\ Raw.display_error = 10 /\ Raw.operational_mode = 0
    /\ converted[1].power_status = <<"ERROR">>
    /\ converted[1].operational_status = <<"SHUTTING_DOWN">>
    /\ converted[1].error = <<"IGNITION_FAILURE">>
    /\ converted[1].operational_mode = << >>

\* the positions of the high bytes of elevation, input_voltage_decivolts,
\* combustion_temperature and room_temperature in the payload
HighBytePositions == {8, 13, 15, 17}

\* the values tried for a high byte
HighByteSamples == {0, 1, 128, 255}

\* C19: the checksum does not depend on the high byte of a 16-bit field:
\* a frame and the frame differing from it only in the high byte of
\* elevation, input_voltage_decivolts, combustion_temperature or
\* room_temperature have the same calculated checksum and the same
\* verification errors, so decoding accepts one exactly when it accepts
\* the other.
C19_HighBytesUnchecked ==
    cpc = "parsed" =>
        \A pos \in HighBytePositions, h \in HighByteSamples :
            LET other == Unpack([buffer EXCEPT ![pos] = h])
                errors == VerificationErrors(other)
            IN /\ calculated_checksum(other) = calculated_checksum(Raw)
               /\ errors = verification_errors
               /\ (errors = << >>) <=> (parsed # None)

\* C19's case: a frame with elevation 300 has been accepted, and the frame
\* with the high byte of elevation cleared, elevation 44, is accepted too.
C19_Witness ==
    /\ cpc = "parsed"
    /\ parsed # None
    /\ Raw.power_status = 1 /\ Raw.elevation = 300
    /\ Unpack([buffer EXCEPT ![8] = 0]).elevation = 44
    /\ from_ble_data_array([buffer EXCEPT ![8] = 0]) # None

====
